---- MODULE Spec2Model ----
(***************************************************************************)
(* Driver Portal (server/src/index.js, server/src/db.js and the            *)
(* promote-first-user script): users, sessions, submissions and the two    *)
(* upload directories, with one action per handler step.  A handler is     *)
(* split at the awaits where another request can run in between.           *)
(*                                                                         *)
(* Delegated to libraries and taken as given: csurf's token verification   *)
(* (requests carry a valid token), express-session's store, the view       *)
(* templates.  bcrypt is modelled by what the handlers rely on: hash and   *)
(* compare agree on equal passwords, and compare rejects a missing one.    *)
(***************************************************************************)
EXTENDS Integers, Sequences, FiniteSets, TLC

\* ------------------------------------------------------------------ bounds
MaxUsers == 2
MaxSubs == 1
MaxReq == 2
MaxClock == 1

\* ------------------------------------------------------------ input values
Absent == "undefined"
Truthy(v) == v # Absent /\ v # ""

Sessions == {1, 2}
Slots == 1..MaxReq

DefaultAdminCode == "admin123"
EnvValues == {Absent, "", "letmein"}
AdminCodes == {Absent, "", "admin123", "letmein"}

People ==
  { [name |-> "Alice", email |-> "a@x.com", password |-> "pw1"],
    [name |-> "Bob", email |-> "b@x.com", password |-> "pw2"],
    [name |-> "Mallory", email |-> "a@x.com", password |-> "pw2"],
    [name |-> "", email |-> "b@x.com", password |-> "pw1"] }

RegisterBodies ==
  { [name |-> p.name, email |-> p.email, password |-> p.password, admin_code |-> c] :
      p \in People, c \in AdminCodes }

LoginBodies ==
  { [email |-> e, password |-> p] :
      e \in {"a@x.com", "b@x.com"}, p \in {"pw1", "pw2", Absent} }

SubmissionBodies ==
  { [race_date |-> "2024-01-01", race_time |-> "14:00", series |-> "GT3",
     is_protest |-> Absent, protest_text |-> ""],
    [race_date |-> "2024-02-02", race_time |-> "09:30", series |-> "GT4",
     is_protest |-> "on", protest_text |-> "contact in T1"],
    [race_date |-> "2024-02-02", race_time |-> "09:30", series |-> "",
     is_protest |-> Absent, protest_text |-> ""] }

\* original file names, as character sequences
ReplayName == <<"l", "a", "p", " ", "1">>
TelemetryA == <<"t", "/", "a">>
TelemetryB == <<"t", "_", "b">>
SafeChars == {"l", "a", "p", "t", "b", "1", "_", ".", "-"}

\* req.files as the browser sends it: at most one replay, a few telemetry files
Uploads ==
  { [replay |-> <<>>, telemetry |-> <<>>],
    [replay |-> <<ReplayName>>, telemetry |-> <<>>],
    [replay |-> <<>>, telemetry |-> <<TelemetryA, TelemetryB>>],
    [replay |-> <<ReplayName>>, telemetry |-> <<TelemetryB>>] }

\* ------------------------------------------------------------------- state
VARIABLES
  env,           \* process.env.ADMIN_CODE
  users,         \* table users: row id = index
  submissions,   \* table submissions: row id = index
  replayDir,     \* uploads/replays: stored file name -> content
  telemetryDir,  \* uploads/telemetry: stored file name -> content
  session,       \* session id -> req.session.user (or NoUser)
  reqs,          \* handlers suspended at an await
  now,           \* Date.now()
  last           \* the handler step just executed and what it answered

vars == <<env, users, submissions, replayDir, telemetryDir, session, reqs, now, last>>

NoUser == [none |-> TRUE]
HasUser(u) == "id" \in DOMAIN u
Idle == [op |-> "idle"]
NoRow == [none |-> TRUE]
IsRow(row) == "id" \in DOMAIN row
NoData == [submissions |-> {}, users |-> {}, files |-> {}]
EmptyDir == [n \in {} |-> 0]

\* ----------------------------------------------------------------- bcrypt
BcryptHash(password) == <<"$2b$10$", password>>
\* "throw": compare rejects when the data argument is missing
BcryptCompare(password, hash) ==
  IF password = Absent THEN "throw"
  ELSE IF hash = BcryptHash(password) THEN "true" ELSE "false"

\* ------------------------------------------------------------------ db.js
UserIds == 1..Len(users)
SubIds == 1..Len(submissions)

UserRow(id) == [id |-> id] @@ users[id]
SubRow(id) == [id |-> id] @@ submissions[id]

\* faulty variant, for comparison: the users table without UNIQUE(email)
InsertNeverFails(email) == FALSE

\* INSERT INTO users: the UNIQUE(email) constraint rejects a second row
InsertUserFails(email) == \E i \in UserIds : users[i].email = email

\* SELECT * FROM users WHERE email = ?
GetUserByEmail(email) ==
  IF \E i \in UserIds : users[i].email = email
  THEN UserRow(CHOOSE i \in UserIds : users[i].email = email)
  ELSE NoRow

\* SELECT * FROM submissions WHERE id = ? AND user_id = ?
GetOwnSubmission(id, uid) ==
  IF id \in SubIds /\ submissions[id].user_id = uid THEN SubRow(id) ELSE NoRow

\* ------------------------------------------------------------ auth helpers
requireAuth(u) == IF ~HasUser(u) THEN "redirect" ELSE "next"

\* faulty variant, for comparison: the role is not looked at
requireAdminAnyUser(u) == IF ~HasUser(u) THEN "forbidden" ELSE "next"

requireAdmin(u) == IF ~HasUser(u) \/ u.role # "admin" THEN "forbidden" ELSE "next"

\* ---------------------------------------------------------------- answers
\* c: the request's context, [sid, user]: its session and req.session.user as
\* the gates saw it (NoUser on the routes without a gate)
Ctx(sid, u) == [sid |-> sid, user |-> u]
NoCtx == Ctx(0, NoUser)

Out(op, c, id, status, kind, to, error, data) ==
  [op |-> op, sid |-> c.sid, user |-> c.user, id |-> id, status |-> status,
   kind |-> kind, to |-> to, error |-> error, data |-> data]

Redirect(op, c, id, to) == Out(op, c, id, 302, "redirect", to, "", NoData)
Render(op, c, id, view, error, data) == Out(op, c, id, 200, "render", view, error, data)
Send(op, c, id, status, text) == Out(op, c, id, status, "send", text, "", NoData)
\* suspended at an await: nothing answered yet
Pending(op, c, id) == Out(op, c, id, 0, "pending", "", "", NoData)

NotFoundText == "Submission not found or you do not have permission to edit it."

\* the answer of the two gates, or "next"
Gate(u, adminOnly) ==
  IF requireAuth(u) = "redirect" THEN "redirect"
  ELSE IF adminOnly /\ requireAdmin(u) = "forbidden" THEN "forbidden"
  ELSE "next"

Denied(op, c, id, adminOnly) ==
  IF Gate(c.user, adminOnly) = "redirect" THEN Redirect(op, c, id, "/login")
  ELSE Send(op, c, id, 403, "Forbidden")

\* -------------------------------------------------------------------- init
Init ==
  /\ env \in EnvValues
  /\ users = <<>>
  /\ submissions = <<>>
  /\ replayDir = EmptyDir
  /\ telemetryDir = EmptyDir
  /\ session = [s \in Sessions |-> NoUser]
  /\ reqs = [r \in Slots |-> Idle]
  /\ now = 0
  /\ last = Pending("start", NoCtx, 0)

\* ---------------------------------------------------------------- register
AdminCode == IF Truthy(env) THEN env ELSE DefaultAdminCode

\* faulty variant, for comparison: the code is compared with the default only, the environment ignored
RoleForIgnoresEnv(admin_code) ==
  IF Truthy(admin_code) /\ admin_code = DefaultAdminCode THEN "admin" ELSE "driver"

RoleFor(admin_code) ==
  IF Truthy(admin_code) /\ admin_code = AdminCode THEN "admin" ELSE "driver"

PendingRegisters == Cardinality({r \in Slots : reqs[r].op = "POST /register"})

\* POST /register up to the await of bcrypt.hash
PostRegister(r, body) ==
  /\ reqs[r] = Idle
  /\ Len(users) + PendingRegisters < MaxUsers \/ InsertUserFails(body.email)
  /\ IF ~Truthy(body.name) \/ ~Truthy(body.email) \/ ~Truthy(body.password)
     THEN /\ last' = Render("POST /register", NoCtx, 0, "register",
                            "All fields are required.", NoData)
          /\ UNCHANGED reqs
     ELSE /\ reqs' = [reqs EXCEPT ![r] =
                        [op |-> "POST /register", body |-> body,
                         passwordHash |-> BcryptHash(body.password)]]
          /\ last' = Pending("POST /register", NoCtx, 0)
  /\ UNCHANGED <<env, users, submissions, replayDir, telemetryDir, session, now>>

\* the INSERT and the answer
PostRegisterInsert(r) ==
  /\ reqs[r].op = "POST /register"
  /\ LET q == reqs[r]
         role == RoleFor(q.body.admin_code)
     IN IF InsertUserFails(q.body.email)
        THEN /\ last' = Render("POST /register", NoCtx, 0, "register",
                               "Email already in use.", NoData)
             /\ UNCHANGED users
        ELSE /\ users' = Append(users, [name |-> q.body.name, email |-> q.body.email,
                                        password_hash |-> q.passwordHash, role |-> role])
             /\ last' = Redirect("POST /register", NoCtx, 0, "/login")
  /\ reqs' = [reqs EXCEPT ![r] = Idle]
  /\ UNCHANGED <<env, submissions, replayDir, telemetryDir, session, now>>

\* ------------------------------------------------------------------- login
\* faulty variant, for comparison: every session is given role admin
SessionUserAsAdmin(row) ==
  [id |-> row.id, name |-> row.name, role |-> "admin", email |-> row.email]

SessionUser(row) ==
  [id |-> row.id, name |-> row.name, role |-> row.role, email |-> row.email]

\* POST /login up to the await of the SELECT
PostLogin(r, sid, body) ==
  /\ reqs[r] = Idle
  /\ LET user == GetUserByEmail(body.email)
     IN IF ~IsRow(user)
        THEN /\ last' = Render("POST /login", Ctx(sid, NoUser), 0, "login",
                               "Invalid credentials.", NoData)
             /\ UNCHANGED reqs
        ELSE /\ reqs' = [reqs EXCEPT ![r] =
                           [op |-> "POST /login", sid |-> sid, body |-> body, user |-> user]]
             /\ last' = Pending("POST /login", Ctx(sid, NoUser), 0)
  /\ UNCHANGED <<env, users, submissions, replayDir, telemetryDir, session, now>>

\* bcrypt.compare and the answer
PostLoginCompare(r) ==
  /\ reqs[r].op = "POST /login"
  /\ LET q == reqs[r]
         ok == BcryptCompare(q.body.password, q.user.password_hash)
     IN IF ok = "throw"
        THEN \* the rejection is not caught: no page is rendered
             /\ \E st \in {0, 500} :
                  last' = Out("POST /login", Ctx(q.sid, NoUser), 0, st, "unhandled",
                              "", "data and hash arguments required", NoData)
             /\ UNCHANGED session
        ELSE IF ok = "false"
        THEN /\ last' = Render("POST /login", Ctx(q.sid, NoUser), 0, "login",
                               "Invalid credentials.", NoData)
             /\ UNCHANGED session
        ELSE /\ session' = [session EXCEPT ![q.sid] = SessionUser(q.user)]
             /\ last' = Redirect("POST /login", Ctx(q.sid, NoUser), 0, "/dashboard")
  /\ reqs' = [reqs EXCEPT ![r] = Idle]
  /\ UNCHANGED <<env, users, submissions, replayDir, telemetryDir, now>>

\* POST /logout
PostLogout(sid) ==
  /\ session' = [session EXCEPT ![sid] = NoUser]
  /\ last' = Redirect("POST /logout", Ctx(sid, NoUser), 0, "/login")
  /\ UNCHANGED <<env, users, submissions, replayDir, telemetryDir, reqs, now>>

\* ---------------------------------------------------- multer disk storage
\* filename: `${Date.now()}-${originalname.replace(/[^a-zA-Z0-9_.-]/g, '_')}`
safeName(t, originalname) ==
  <<t, [i \in DOMAIN originalname |->
          IF originalname[i] \in SafeChars THEN originalname[i] ELSE "_"]>>

Range(q) == { q[i] : i \in DOMAIN q }

StoredNames(t, originals) == [i \in DOMAIN originals |-> safeName(t, originals[i])]

\* createWriteStream(destination/filename): an existing file is overwritten
Store(dir, names, content) ==
  [n \in DOMAIN dir \cup Range(names) |-> IF n \in Range(names) THEN content ELSE dir[n]]

\* if (fs.existsSync(p)) fs.unlinkSync(p), for each name
Unlink(dir, names) == [n \in DOMAIN dir \ Range(names) |-> dir[n]]

Null == <<>>
NullText == "null"
JSONstringify(list) == [json |-> list]
JSONparse(text) == text.json

\* ------------------------------------------------------------ submissions
RequiredMissing(body) ==
  ~Truthy(body.race_date) \/ ~Truthy(body.race_time) \/ ~Truthy(body.series)

FormFields(body) ==
  [race_date |-> body.race_date, race_time |-> body.race_time, series |-> body.series,
   is_protest |-> IF Truthy(body.is_protest) THEN 1 ELSE 0,
   protest_text |-> IF Truthy(body.protest_text) THEN body.protest_text ELSE NullText]

PendingSubmits == Cardinality({r \in Slots : reqs[r].op = "POST /submit"})

\* faulty variant, for comparison: upload.fields(...) placed before requireAuth in the chain
IntakeBeforeAuth(r, op, sid, id, body, files) ==
  LET u == session[sid]
      c == Ctx(sid, u)
      replay == StoredNames(now, files.replay)
      telemetry == StoredNames(now, files.telemetry)
      owner == IF HasUser(u) THEN u.id ELSE 0
  IN /\ replayDir' = Store(replayDir, replay, owner)
     /\ telemetryDir' = Store(telemetryDir, telemetry, owner)
     /\ IF Gate(u, FALSE) # "next"
        THEN /\ last' = Denied(op, c, id, FALSE)
             /\ UNCHANGED reqs
        ELSE /\ reqs' = [reqs EXCEPT ![r] =
                           [op |-> op, sid |-> sid, user |-> u, id |-> id, body |-> body,
                            files |-> [replay |-> replay, telemetry |-> telemetry],
                            step |-> "uploaded", existingSubmission |-> NoRow]]
             /\ last' = Pending(op, c, id)

\* requireAuth, then upload.fields(...) writes the files; shared by both POST routes
Intake(r, op, sid, id, body, files) ==
  LET u == session[sid]
      c == Ctx(sid, u)
  IN IF Gate(u, FALSE) # "next"
     THEN /\ last' = Denied(op, c, id, FALSE)
          /\ UNCHANGED <<replayDir, telemetryDir, reqs>>
     ELSE LET replay == StoredNames(now, files.replay)
              telemetry == StoredNames(now, files.telemetry)
          IN /\ replayDir' = Store(replayDir, replay, u.id)
             /\ telemetryDir' = Store(telemetryDir, telemetry, u.id)
             /\ reqs' = [reqs EXCEPT ![r] =
                           [op |-> op, sid |-> sid, user |-> u, id |-> id, body |-> body,
                            files |-> [replay |-> replay, telemetry |-> telemetry],
                            step |-> "uploaded", existingSubmission |-> NoRow]]
             /\ last' = Pending(op, c, id)

\* POST /submit: the middleware chain up to the handler
PostSubmit(r, sid, body, files) ==
  /\ reqs[r] = Idle
  /\ Gate(session[sid], FALSE) = "next" => Len(submissions) + PendingSubmits < MaxSubs
  /\ Intake(r, "POST /submit", sid, 0, body, files)
  /\ UNCHANGED <<env, users, submissions, session, now>>

\* POST /submit: the handler
PostSubmitInsert(r) ==
  /\ reqs[r].op = "POST /submit"
  /\ LET q == reqs[r]
     IN IF RequiredMissing(q.body)
        THEN /\ last' = Render(q.op, Ctx(q.sid, q.user), 0, "submit",
                               "Please fill required fields.", NoData)
             /\ UNCHANGED submissions
        ELSE LET replayPath == IF Len(q.files.replay) > 0 THEN q.files.replay[1] ELSE Null
                 telemetryJson == JSONstringify(q.files.telemetry)
             IN /\ submissions' = Append(submissions,
                     [user_id |-> q.user.id] @@ FormFields(q.body) @@
                     [replay_file |-> replayPath, telemetry_files |-> telemetryJson])
                /\ last' = Redirect(q.op, Ctx(q.sid, q.user), 0, "/dashboard")
  /\ reqs' = [reqs EXCEPT ![r] = Idle]
  /\ UNCHANGED <<env, users, replayDir, telemetryDir, session, now>>

\* POST /edit/:id: the middleware chain up to the handler
PostEdit(r, sid, id, body, files) ==
  /\ reqs[r] = Idle
  /\ Intake(r, "POST /edit/:id", sid, id, body, files)
  /\ UNCHANGED <<env, users, submissions, session, now>>

\* POST /edit/:id: the ownership SELECT and the checks on its result
PostEditGet(r) ==
  /\ reqs[r].op = "POST /edit/:id"
  /\ reqs[r].step = "uploaded"
  /\ LET q == reqs[r]
         existingSubmission == GetOwnSubmission(q.id, q.user.id)
     IN IF ~IsRow(existingSubmission)
        THEN /\ last' = Send(q.op, Ctx(q.sid, q.user), q.id, 404, NotFoundText)
             /\ reqs' = [reqs EXCEPT ![r] = Idle]
        ELSE IF RequiredMissing(q.body)
        THEN /\ last' = Render(q.op, Ctx(q.sid, q.user), q.id, "submit",
                               "Please fill required fields.",
                               [NoData EXCEPT !.submissions = {existingSubmission}])
             /\ reqs' = [reqs EXCEPT ![r] = Idle]
        ELSE /\ last' = Pending(q.op, Ctx(q.sid, q.user), q.id)
             /\ reqs' = [reqs EXCEPT ![r] =
                           [q EXCEPT !.step = "read",
                                     !.existingSubmission = existingSubmission]]
  /\ UNCHANGED <<env, users, submissions, replayDir, telemetryDir, session, now>>

\* the file names the UPDATE writes, from the row read and the upload
EditReplay(existing, files) ==
  IF Len(files.replay) > 0 THEN files.replay[1] ELSE existing.replay_file

EditTelemetry(existing, files) ==
  IF Len(files.telemetry) > 0 THEN files.telemetry ELSE JSONparse(existing.telemetry_files)

\* the old files an edit unlinks
EditUnlinkReplay(existing, files) ==
  IF Len(files.replay) > 0 /\ existing.replay_file # Null
  THEN <<existing.replay_file>> ELSE <<>>

EditUnlinkTelemetry(existing, files) ==
  IF Len(files.telemetry) > 0 THEN JSONparse(existing.telemetry_files) ELSE <<>>

\* POST /edit/:id: old files unlinked, then the UPDATE
PostEditUpdate(r) ==
  /\ reqs[r].op = "POST /edit/:id"
  /\ reqs[r].step = "read"
  /\ LET q == reqs[r]
         old == q.existingSubmission
     IN /\ replayDir' = Unlink(replayDir, EditUnlinkReplay(old, q.files))
        /\ telemetryDir' = Unlink(telemetryDir, EditUnlinkTelemetry(old, q.files))
        /\ submissions' = [submissions EXCEPT ![q.id] =
               [user_id |-> submissions[q.id].user_id] @@ FormFields(q.body) @@
               [replay_file |-> EditReplay(old, q.files),
                telemetry_files |-> JSONstringify(EditTelemetry(old, q.files))]]
        /\ last' = Redirect(q.op, Ctx(q.sid, q.user), q.id, "/dashboard")
  /\ reqs' = [reqs EXCEPT ![r] = Idle]
  /\ UNCHANGED <<env, users, session, now>>

\* ------------------------------------------------------------ GET routes
GetDashboard(sid) ==
  /\ LET u == session[sid]
     IN last' = IF Gate(u, FALSE) # "next" THEN Denied("GET /dashboard", Ctx(sid, u), 0, FALSE)
                ELSE Render("GET /dashboard", Ctx(sid, u), 0, "dashboard", "",
                       [NoData EXCEPT !.submissions =
                          { SubRow(i) : i \in {j \in SubIds : submissions[j].user_id = u.id} }])
  /\ UNCHANGED <<env, users, submissions, replayDir, telemetryDir, session, reqs, now>>

GetSubmit(sid) ==
  /\ LET u == session[sid]
     IN last' = IF Gate(u, FALSE) # "next" THEN Denied("GET /submit", Ctx(sid, u), 0, FALSE)
                ELSE Render("GET /submit", Ctx(sid, u), 0, "submit", "", NoData)
  /\ UNCHANGED <<env, users, submissions, replayDir, telemetryDir, session, reqs, now>>

GetEdit(sid, id) ==
  /\ LET u == session[sid]
     IN last' = IF Gate(u, FALSE) # "next" THEN Denied("GET /edit/:id", Ctx(sid, u), id, FALSE)
                ELSE LET submission == GetOwnSubmission(id, u.id)
                     IN IF ~IsRow(submission)
                        THEN Send("GET /edit/:id", Ctx(sid, u), id, 404, NotFoundText)
                        ELSE Render("GET /edit/:id", Ctx(sid, u), id, "submit", "",
                                    [NoData EXCEPT !.submissions = {submission}])
  /\ UNCHANGED <<env, users, submissions, replayDir, telemetryDir, session, reqs, now>>

\* ------------------------------------------------------------ admin routes
UserListing(i) ==
  [id |-> i, name |-> users[i].name, email |-> users[i].email, role |-> users[i].role]

GetAdmin(sid) ==
  /\ LET u == session[sid]
     IN last' = IF Gate(u, TRUE) # "next" THEN Denied("GET /admin", Ctx(sid, u), 0, TRUE)
                ELSE Render("GET /admin", Ctx(sid, u), 0, "admin", "",
                       [NoData EXCEPT !.submissions = { SubRow(i) : i \in SubIds },
                                      !.users = { UserListing(i) : i \in UserIds }])
  /\ UNCHANGED <<env, users, submissions, replayDir, telemetryDir, session, reqs, now>>

\* faulty variant, for comparison: the UPDATE without its WHERE
PromoteEveryRow(id) == [i \in UserIds |-> [users[i] EXCEPT !.role = "admin"]]

\* UPDATE users SET role = 'admin' WHERE id = ?
PromoteRow(id) ==
  [i \in UserIds |-> IF i = id THEN [users[i] EXCEPT !.role = "admin"] ELSE users[i]]

PostMakeAdmin(sid, targetUserId) ==
  /\ LET u == session[sid]
     IN IF Gate(u, TRUE) # "next"
        THEN /\ last' = Denied("POST /admin/users/:id/make-admin", Ctx(sid, u), targetUserId, TRUE)
             /\ UNCHANGED users
        ELSE /\ users' = PromoteRow(targetUserId)
             /\ last' = Redirect("POST /admin/users/:id/make-admin", Ctx(sid, u), targetUserId, "/admin")
  /\ UNCHANGED <<env, submissions, replayDir, telemetryDir, session, reqs, now>>

SendFile(op, c, dir, name) ==
  IF name \in DOMAIN dir
  THEN Out(op, c, 0, 200, "sendFile", "", "",
           [NoData EXCEPT !.files = {<<op, name, dir[name]>>}])
  ELSE Out(op, c, 0, 404, "error", "", "ENOENT", NoData)

GetReplayFile(sid, name) ==
  /\ LET u == session[sid]
     IN last' = IF Gate(u, TRUE) # "next" THEN Denied("GET /files/replays/:name", Ctx(sid, u), 0, TRUE)
                ELSE SendFile("GET /files/replays/:name", Ctx(sid, u), replayDir, name)
  /\ UNCHANGED <<env, users, submissions, replayDir, telemetryDir, session, reqs, now>>

GetTelemetryFile(sid, name) ==
  /\ LET u == session[sid]
     IN last' = IF Gate(u, TRUE) # "next" THEN Denied("GET /files/telemetry/:name", Ctx(sid, u), 0, TRUE)
                ELSE SendFile("GET /files/telemetry/:name", Ctx(sid, u), telemetryDir, name)
  /\ UNCHANGED <<env, users, submissions, replayDir, telemetryDir, session, reqs, now>>

\* scripts: promote the first user
promoteOnlyUserToAdmin ==
  /\ IF Len(users) = 0
     THEN /\ last' = Out("promoteOnlyUserToAdmin", NoCtx, 0, 0, "script", "",
                         "No users found. Nothing to do.", NoData)
          /\ UNCHANGED users
     ELSE /\ users' = PromoteRow(1)
          /\ last' = Out("promoteOnlyUserToAdmin", NoCtx, 1, 0, "script", "", "", NoData)
  /\ UNCHANGED <<env, submissions, replayDir, telemetryDir, session, reqs, now>>

\* the clock moves between two calls of Date.now(), or does not
Tick ==
  /\ now < MaxClock
  /\ now' = now + 1
  /\ last' = Pending("tick", NoCtx, 0)
  /\ UNCHANGED <<env, users, submissions, replayDir, telemetryDir, session, reqs>>

\* -------------------------------------------------------------------- next
\* :id and :name as requested: rows and files that exist, and some that do not
Ids == 1..(MaxSubs + 1)
ReplayNames == { safeName(t, ReplayName) : t \in 0..MaxClock }
TelemetryNames == { safeName(t, o) : t \in 0..MaxClock, o \in {TelemetryA, TelemetryB} }

Next ==
  \/ \E r \in Slots, body \in RegisterBodies : PostRegister(r, body)
  \/ \E r \in Slots : PostRegisterInsert(r)
  \/ \E r \in Slots, sid \in Sessions, body \in LoginBodies : PostLogin(r, sid, body)
  \/ \E r \in Slots : PostLoginCompare(r)
  \/ \E sid \in Sessions : PostLogout(sid)
  \/ \E sid \in Sessions : GetDashboard(sid)
  \/ \E sid \in Sessions : GetSubmit(sid)
  \/ \E sid \in Sessions, id \in Ids : GetEdit(sid, id)
  \/ \E r \in Slots, sid \in Sessions, body \in SubmissionBodies, files \in Uploads :
       PostSubmit(r, sid, body, files)
  \/ \E r \in Slots : PostSubmitInsert(r)
  \/ \E r \in Slots, sid \in Sessions, id \in Ids, body \in SubmissionBodies,
        files \in Uploads : PostEdit(r, sid, id, body, files)
  \/ \E r \in Slots : PostEditGet(r)
  \/ \E r \in Slots : PostEditUpdate(r)
  \/ \E sid \in Sessions : GetAdmin(sid)
  \/ \E sid \in Sessions, id \in 1..MaxUsers : PostMakeAdmin(sid, id)
  \/ \E sid \in Sessions, name \in ReplayNames : GetReplayFile(sid, name)
  \/ \E sid \in Sessions, name \in TelemetryNames : GetTelemetryFile(sid, name)
  \/ promoteOnlyUserToAdmin
  \/ Tick

Spec == Init /\ [][Next]_vars

\* ----------------------------------------------------------- registration
NextRegister ==
  \/ \E r \in Slots, body \in RegisterBodies : PostRegister(r, body)
  \/ \E r \in Slots : PostRegisterInsert(r)

SpecRegister == Init /\ [][NextRegister]_vars

\* ------------------------------------------------- accounts and sessions
\* the default admin code; registrations race each other, logins are taken one
\* at a time
InitAuth == Init /\ env = Absent

AuthRegisterBodies == { b \in RegisterBodies : b.admin_code \in {Absent, DefaultAdminCode} }

NextAuth ==
  \/ \E r \in Slots, body \in AuthRegisterBodies : PostRegister(r, body)
  \/ \E r \in Slots : PostRegisterInsert(r)
  \/ \E sid \in Sessions, body \in LoginBodies : PostLogin(1, sid, body)
  \/ PostLoginCompare(1)
  \/ \E sid \in Sessions : PostLogout(sid)
  \/ \E sid \in Sessions : GetAdmin(sid)
  \/ \E sid \in Sessions, id \in 1..MaxUsers : PostMakeAdmin(sid, id)
  \/ promoteOnlyUserToAdmin

SpecAuth == InitAuth /\ [][NextAuth]_vars

\* ------------------------------------- one submission, two logged-in drivers
Alice == [name |-> "Alice", email |-> "a@x.com", password_hash |-> BcryptHash("pw1"),
          role |-> "driver"]
Bob == [name |-> "Bob", email |-> "b@x.com", password_hash |-> BcryptHash("pw2"),
        role |-> "driver"]

InitSub ==
  /\ env = Absent
  /\ users = <<Alice, Bob>>
  /\ submissions = <<>>
  /\ replayDir = EmptyDir
  /\ telemetryDir = EmptyDir
  /\ session = [s \in Sessions |-> SessionUser(UserRow(s))]
  /\ reqs = [r \in Slots |-> Idle]
  /\ now = 0
  /\ last = Pending("start", NoCtx, 0)

ValidBodies == { b \in SubmissionBodies : ~RequiredMissing(b) }

\* uploads of one kind at a time
OneKind == { f \in Uploads : Len(f.replay) = 0 \/ Len(f.telemetry) = 0 }

\* Alice creates one submission and edits it, two edits at a time
NextSub ==
  \/ GetEdit(1, 1)
  \/ \E body \in ValidBodies, files \in OneKind :
       PostSubmit(1, 1, body, files)
  \/ PostSubmitInsert(1)
  \/ \E r \in Slots, body \in ValidBodies, files \in OneKind :
       PostEdit(r, 1, 1, body, files)
  \/ \E r \in Slots : PostEditGet(r)
  \/ \E r \in Slots : PostEditUpdate(r)
  \/ Tick

SpecSub == InitSub /\ [][NextSub]_vars

\* Alice creates one submission and edits it; Bob tries to read and edit it
NextOther ==
  \/ \E sid \in Sessions : GetEdit(sid, 1)
  \/ \E body \in ValidBodies, files \in OneKind :
       PostSubmit(1, 1, body, files)
  \/ PostSubmitInsert(1)
  \/ \E sid \in Sessions, body \in SubmissionBodies, files \in OneKind :
       PostEdit(sid, sid, 1, body, files)
  \/ \E r \in Slots : PostEditGet(r)
  \/ \E r \in Slots : PostEditUpdate(r)
  \/ Tick

SpecOther == InitSub /\ [][NextOther]_vars

\* ------------------------------------- every gated route, one request at a
\* time: a driver and an admin, sessions that come and go
BobAdmin == [Bob EXCEPT !.role = "admin"]

InitGate ==
  /\ env = Absent
  /\ users = <<Alice, BobAdmin>>
  /\ submissions = <<>>
  /\ replayDir = EmptyDir
  /\ telemetryDir = EmptyDir
  /\ session = [s \in Sessions |-> NoUser]
  /\ reqs = [r \in Slots |-> Idle]
  /\ now = 0
  /\ last = Pending("start", NoCtx, 0)

\* the forms sent: complete or not, with a replay or without files
GateBodies == { b \in SubmissionBodies : ~Truthy(b.is_protest) }
GateUploads == { f \in Uploads : Len(f.replay) = Len(f.telemetry) }

GateLogins == { b \in LoginBodies : b.password = "pw1" \/ (b.email = "b@x.com" /\ b.password = "pw2") }

NextGate ==
  \/ \E sid \in Sessions, body \in GateLogins : PostLogin(1, sid, body)
  \/ PostLoginCompare(1)
  \/ \E sid \in Sessions : PostLogout(sid)
  \/ \E sid \in Sessions : GetDashboard(sid)
  \/ \E sid \in Sessions : GetSubmit(sid)
  \/ \E sid \in Sessions, id \in Ids : GetEdit(sid, id)
  \/ \E sid \in Sessions, body \in GateBodies, files \in GateUploads :
       PostSubmit(1, sid, body, files)
  \/ PostSubmitInsert(1)
  \/ \E sid \in Sessions, id \in Ids, body \in GateBodies, files \in GateUploads :
       PostEdit(1, sid, id, body, files)
  \/ PostEditGet(1)
  \/ PostEditUpdate(1)
  \/ \E sid \in Sessions : GetAdmin(sid)
  \/ \E sid \in Sessions, id \in 1..MaxUsers : PostMakeAdmin(sid, id)
  \/ \E sid \in Sessions, name \in ReplayNames : GetReplayFile(sid, name)
  \/ \E sid \in Sessions, name \in TelemetryNames : GetTelemetryFile(sid, name)

SpecGate == InitGate /\ [][NextGate]_vars

\* =================================================================== claims
\* a handler resumed after an await moves its slot; any other step is a request
\* arriving
Arrival == \A r \in Slots : reqs[r] = Idle \/ reqs'[r] = reqs[r]

Resumed(r, op) == reqs[r].op = op /\ reqs'[r] # reqs[r]

EditRoutes == {"GET /edit/:id", "POST /edit/:id"}

AdminRoutes ==
  {"GET /admin", "POST /admin/users/:id/make-admin",
   "GET /files/replays/:name", "GET /files/telemetry/:name"}

SessionRoutes ==
  {"GET /dashboard", "GET /submit", "POST /submit"} \cup EditRoutes \cup AdminRoutes

ReplayRefs(row) == IF row.replay_file = Null THEN {} ELSE {row.replay_file}
TelemetryRefs(row) == Range(JSONparse(row.telemetry_files))

SameFiles(dir, dirAfter, names) ==
  \A n \in names \cap DOMAIN dir : n \in DOMAIN dirAfter /\ dirAfter[n] = dir[n]

\* C1: a step of GET or POST /edit/s by a logged-in user who does not own s
\* answers nothing but the 404 that a missing id gets, and leaves the row of s
\* and the files s references as they are.
C1_NonOwnerEdit ==
  [][ \A s \in SubIds :
        (/\ last'.op \in EditRoutes
         /\ last'.id = s
         /\ HasUser(last'.user)
         /\ submissions[s].user_id # last'.user.id)
        => /\ \/ last' = Pending(last'.op, Ctx(last'.sid, last'.user), s)
              \/ last' = Send(last'.op, Ctx(last'.sid, last'.user), s, 404, NotFoundText)
           /\ submissions' = submissions
           /\ SameFiles(replayDir, replayDir', ReplayRefs(submissions[s]))
           /\ SameFiles(telemetryDir, telemetryDir', TelemetryRefs(submissions[s])) ]_vars

\* C2: on an admin-only route a session user whose role is not admin gets
\* 403 Forbidden, sent and not redirected, with no data, and no row of users
\* changes.
C2_NonAdminForbidden ==
  [][ (/\ last'.op \in AdminRoutes
       /\ HasUser(last'.user)
       /\ last'.user.role # "admin")
      => /\ last' = Send(last'.op, Ctx(last'.sid, last'.user), last'.id, 403, "Forbidden")
         /\ last'.data = NoData
         /\ users' = users ]_vars

C2_Witness ==
  /\ last.op = "GET /admin"
  /\ last.status = 403
  /\ HasUser(last.user)
  /\ last.user.role = "driver"
  /\ users[last.user.id].role = "admin"
  /\ Len(submissions) > 0

\* C3: a request to a session-required route whose session holds no user is
\* redirected to /login and changes no table, no upload directory, no session
\* and no suspended handler; POST /logout leaves its session without a user.
C3_NoSessionNoEffect ==
  [][ /\ (/\ last'.op \in SessionRoutes
          /\ Arrival
          /\ ~HasUser(session[last'.sid]))
         => /\ last' = Redirect(last'.op, Ctx(last'.sid, NoUser), last'.id, "/login")
            /\ UNCHANGED <<users, submissions, replayDir, telemetryDir, session, reqs>>
      /\ last'.op = "POST /logout" => ~HasUser(session'[last'.sid]) ]_vars

\* a POST /edit/:id redirected to /login in a session that was logged out, with a
\* submission and its files on disk
C3_Witness ==
  /\ last = Redirect("POST /edit/:id", Ctx(last.sid, NoUser), 1, "/login")
  /\ Len(submissions) = 1
  /\ submissions[1].replay_file \in DOMAIN replayDir
  /\ \A sid \in Sessions : ~HasUser(session[sid])

\* the secret in force: ADMIN_CODE of the environment, admin123 when it is
\* unset or empty
ConfiguredSecret == IF env = Absent \/ env = "" THEN "admin123" ELSE env

\* row i of users is written with role admin, or has its role changed
SetsRole(i) ==
  IF i <= Len(users) THEN users'[i].role # users[i].role ELSE users'[i].role = "admin"

RegisteredWithCode(i) ==
  /\ i = Len(users) + 1
  /\ \E r \in Slots :
       /\ Resumed(r, "POST /register")
       /\ reqs[r].body.admin_code # Absent
       /\ reqs[r].body.admin_code # ""
       /\ reqs[r].body.admin_code = ConfiguredSecret

PromotedByAdmin(i) ==
  /\ last'.op = "POST /admin/users/:id/make-admin"
  /\ last'.id = i
  /\ HasUser(session[last'.sid])
  /\ session[last'.sid].role = "admin"

PromotedByScript(i) == last'.op = "promoteOnlyUserToAdmin" /\ i = 1

\* C4 as stated: a role is set to admin, or changed, only by a registration with
\* the matching admin code or by make-admin from a session whose role is admin.
C4_OnlyCodeOrAdmin ==
  [][ \A i \in 1..Len(users') :
        SetsRole(i) => /\ users'[i].role = "admin"
                       /\ RegisteredWithCode(i) \/ PromotedByAdmin(i) ]_vars

\* C4 as amended: ... or by the promoteOnlyUserToAdmin script, which needs no
\* session and promotes the user with the lowest id.
C4_OnlyCodeAdminOrScript ==
  [][ \A i \in 1..Len(users') :
        SetsRole(i) => /\ users'[i].role = "admin"
                       /\ RegisteredWithCode(i) \/ PromotedByAdmin(i) \/ PromotedByScript(i) ]_vars

\* the script has promoted the first of two drivers, no session involved
C4_Witness ==
  /\ last.op = "promoteOnlyUserToAdmin"
  /\ Len(users) = 2
  /\ users[1].role = "admin"
  /\ users[2].role = "driver"
  /\ \A sid \in Sessions : ~HasUser(session[sid])

\* C5: a registration that inserts a row gives it role admin exactly when the
\* admin code sent is non-empty and equals the configured secret, role driver
\* otherwise; no step of a registration touches a session.
C5_RoleByAdminCode ==
  [][ /\ \A r \in Slots :
           (Resumed(r, "POST /register") /\ Len(users') = Len(users) + 1)
           => LET code == reqs[r].body.admin_code
                  row == users'[Len(users')]
              IN /\ row.role \in {"admin", "driver"}
                 /\ row.role = "admin" <=>
                      (code # Absent /\ code # "" /\ code = ConfiguredSecret)
      /\ last'.op = "POST /register" => session' = session ]_vars

\* with ADMIN_CODE set, the code of the environment made an admin and the
\* built-in default did not
C5_Witness ==
  /\ env = "letmein"
  /\ last = Redirect("POST /register", NoCtx, 0, "/login")
  /\ Len(users) = 2
  /\ users[1].role = "admin"
  /\ users[2].role = "driver"
  /\ \A sid \in Sessions : ~HasUser(session[sid])

\* C6: an INSERT for an email that a row already holds answers "Email already
\* in use." and inserts nothing; no step changes an existing row; no two rows
\* share an email.
C6_DuplicateEmailRejected ==
  [][ /\ \A r \in Slots :
           (/\ Resumed(r, "POST /register")
            /\ \E i \in UserIds : users[i].email = reqs[r].body.email)
           => /\ last' = Render("POST /register", NoCtx, 0, "register",
                                "Email already in use.", NoData)
              /\ users' = users
      /\ Len(users') >= Len(users)
      /\ \A i \in UserIds : users'[i] = users[i]
      /\ \A i, j \in 1..Len(users') : users'[i].email = users'[j].email => i = j ]_vars

\* two registrations for Alice's email were in flight together: the second was
\* refused, and a third for the same email is still waiting
C6_Witness ==
  /\ last.error = "Email already in use."
  /\ Len(users) = 1
  /\ \E r \in Slots : /\ reqs[r].op = "POST /register"
                      /\ reqs[r].body.email = users[1].email
                      /\ reqs[r].body.name # users[1].name

InvalidCredentials(sid) ==
  Render("POST /login", Ctx(sid, NoUser), 0, "login", "Invalid credentials.", NoData)

\* C7 as stated: a login with the password of an existing email puts exactly
\* id, name, role and email of that row into the session; every other login
\* leaves the sessions alone and answers the one "Invalid credentials." page.
C7_LoginAllOrNothing ==
  [][ /\ \A r \in Slots :
           Resumed(r, "POST /login")
           => LET q == reqs[r]
              IN IF q.user.password_hash = BcryptHash(q.body.password)
                 THEN /\ DOMAIN session'[q.sid] = {"id", "name", "role", "email"}
                      /\ session'[q.sid].id = q.user.id
                      /\ session'[q.sid].name = q.user.name
                      /\ session'[q.sid].role = q.user.role
                      /\ session'[q.sid].email = q.user.email
                 ELSE /\ session' = session
                      /\ last' = InvalidCredentials(q.sid)
      /\ (last'.op = "POST /login" /\ Arrival /\ last'.kind # "pending")
         => /\ session' = session
            /\ last' = InvalidCredentials(last'.sid) ]_vars

\* the step in which the edit suspended in slot r writes its UPDATE
Updates(r) == Resumed(r, "POST /edit/:id") /\ reqs[r].step = "read"

\* C8 as stated: when an edit that uploaded files of a kind writes its UPDATE,
\* the files of that kind the row referenced are gone from the directory, the row
\* references exactly the newly stored names, and those files are in the directory.
C8_UploadReplaces ==
  [][ \A r \in Slots :
        Updates(r)
        => LET q == reqs[r]
               before == submissions[q.id]
               after == submissions'[q.id]
           IN /\ Len(q.files.replay) > 0
                 => /\ ReplayRefs(before) \cap DOMAIN replayDir' = {}
                    /\ after.replay_file = q.files.replay[1]
                    /\ after.replay_file \in DOMAIN replayDir'
              /\ Len(q.files.telemetry) > 0
                 => /\ TelemetryRefs(before) \cap DOMAIN telemetryDir' = {}
                    /\ JSONparse(after.telemetry_files) = q.files.telemetry
                    /\ TelemetryRefs(after) \subseteq DOMAIN telemetryDir' ]_vars

\* C9 as stated: when an edit that uploaded no file of a kind writes its UPDATE,
\* the row's references of that kind are what they were just before the UPDATE
\* and no file of that kind leaves the directory.
C9_NoUploadKeeps ==
  [][ \A r \in Slots :
        Updates(r)
        => LET q == reqs[r]
               before == submissions[q.id]
               after == submissions'[q.id]
           IN /\ Len(q.files.replay) = 0
                 => /\ after.replay_file = before.replay_file
                    /\ DOMAIN replayDir \subseteq DOMAIN replayDir'
              /\ Len(q.files.telemetry) = 0
                 => /\ after.telemetry_files = before.telemetry_files
                    /\ DOMAIN telemetryDir \subseteq DOMAIN telemetryDir' ]_vars

\* C10 as stated: whenever no edit is in flight, every replay and telemetry name
\* a row references is a file of the directory of its kind.
C10_ReferencesResolve ==
  (\A r \in Slots : reqs[r].op # "POST /edit/:id")
  => \A i \in SubIds :
       /\ ReplayRefs(submissions[i]) \subseteq DOMAIN replayDir
       /\ TelemetryRefs(submissions[i]) \subseteq DOMAIN telemetryDir

\* the role a session has cached is admin only where the row of its user says so
CachedAdminIsStoredAdmin ==
  \A sid \in Sessions :
    (HasUser(session[sid]) /\ session[sid].role = "admin")
    => /\ session[sid].id \in UserIds
       /\ users[session[sid].id].role = "admin"

\* C11: under register, login, logout and make-admin (and the promote script),
\* a session whose cached role is admin belongs to a user whose stored role is
\* admin, in every state, and no step changes a stored role from admin to
\* anything else or removes an admin's row.
C11_SessionWithinStore ==
  /\ []CachedAdminIsStoredAdmin
  /\ [][ \A i \in UserIds :
           users[i].role = "admin"
           => i \in 1..Len(users') /\ users'[i].role = "admin" ]_vars

\* an admin session has just promoted the user of another session: the store says
\* admin for both, the second session still caches driver
C11_Witness ==
  /\ last.op = "POST /admin/users/:id/make-admin"
  /\ last.status = 302
  /\ \E a, b \in Sessions :
       /\ HasUser(session[a]) /\ HasUser(session[b])
       /\ session[a].id # session[b].id
       /\ session[a].role = "admin"
       /\ session[b].role = "driver"
       /\ users[session[a].id].role = "admin"
       /\ users[session[b].id].role = "admin"

====
